---- MODULE Spec2Model ----
(***************************************************************************)
(* Ashvattha lineage graph (src/main.py): the person registry              *)
(* (create_person), the relationship arbiter (add_relationship), the       *)
(* genesis merge resolver (check_genesis_merge) and the tree assembler     *)
(* (build_tree), as request handlers running concurrently against one      *)
(* store.  Every `await conn....` is one statement of the store and one    *)
(* step of the handler; nothing in the handlers opens a transaction, so    *)
(* the statements of different handlers interleave freely.                 *)
(***************************************************************************)
EXTENDS Integers, Sequences, FiniteSets, TLC

\* ------------------------------------------------------------------ bounds
\* Total number of requests served in one behaviour.
MaxCalls == 3

\* Request handlers that can be in flight at the same time.
Procs == {"h1", "h2"}

\* Inputs of the requests.
PersonInputs == {[name |-> "Al", type |-> "human"],
                 [name |-> "cy", type |-> "genesis"]}
RelInputs == {[parent_type |-> "father", confidence |-> 60, source_url |-> TRUE],
              [parent_type |-> "father", confidence |-> 95, source_url |-> FALSE],
              [parent_type |-> "mother", confidence |-> 95, source_url |-> FALSE]}

\* get_tree(person_id, depth) on the first person (an id that is no person
\* while the store is empty), with a depth above and below zero.
TreeInputs == {[person_id |-> 1, depth |-> 1],
               [person_id |-> 1, depth |-> -1]}

\* Relationships in the stores the tree assembler is run on by itself.
MaxTreeEdges == 3

\* The submissions that built those stores (all below the merge threshold),
\* and the depths asked of get_tree there.
TreeRelInputs == {[parent_type |-> "father", confidence |-> 60]}
TreeDepths == {-1, 1, 2, 3}

\* ------------------------------------------------------------- constants
\* `if data.confidence >= 95.0` and `confidence >= 95`
MergeThreshold == 95
\* `VALUES ($1, $2, $3, 95)`
ConfidenceAtMerge == 95
\* `LIMIT 20`
ChildLimit == 20

NULL == <<>>

VARIABLES
    persons,        \* table persons: row i has id i
    relationships,  \* table relationships: row i has id i
    sources,        \* table sources: relationship ids, one per row
    merge_log,      \* table merge_log
    agent_queue,    \* table agent_queue: person ids
    agent_log,      \* table agent_log
    pc,             \* per handler: the statement it is about to run
    loc,            \* per handler: its request and local variables
    response,       \* what the step just taken returned to its client, or NULL
    calls           \* number of requests started

vars == <<persons, relationships, sources, merge_log, agent_queue, agent_log,
          pc, loc, response, calls>>

store == <<persons, relationships, sources, merge_log, agent_queue, agent_log>>

\* ---------------------------------------------------------------- helpers
\* SQL LOWER() on the names of the model.
Lower(n) == CASE n = "Al" -> "al"
              [] n = "Bo" -> "bo"
              [] OTHER -> n

\* f"G{genesis_count + 1}"
GenesisCode(n) == <<"G", n>>

Ids(table) == DOMAIN table

\* The record rec with field key set to val.
With(rec, key, val) ==
    [k \in DOMAIN rec \cup {key} |-> IF k = key THEN val ELSE rec[k]]

\* SELECT id FROM persons WHERE name = $1 (a case-sensitive comparison)
FindByNameExact(ps, name) == {i \in Ids(ps) : ps[i].name = name}

\* SELECT id FROM persons WHERE LOWER(name) = LOWER($1)
FindByName(ps, name) == {i \in Ids(ps) : Lower(ps[i].name) = Lower(name)}

\* SELECT COUNT(*) FROM persons WHERE is_genesis=TRUE
GenesisCount(ps) == Cardinality({i \in Ids(ps) : ps[i].is_genesis})

\* INSERT INTO persons ... ON CONFLICT (name) DO UPDATE (an upsert that
\* makes the existing row a root again)
InsertPersonUpsert(ps, name, type, code) ==
    IF FindByName(ps, name) # {}
    THEN [i \in Ids(ps) |->
            IF i \in FindByName(ps, name)
            THEN [ps[i] EXCEPT !.is_genesis = TRUE, !.genesis_code = code]
            ELSE ps[i]]
    ELSE Append(ps, [name |-> name, type |-> type,
                     is_genesis |-> TRUE, genesis_code |-> code])

\* INSERT INTO persons (..., is_genesis) VALUES (..., TRUE) (the code column
\* is left out)
InsertPersonUncoded(ps, name, type, code) ==
    Append(ps, [name |-> name, type |-> type,
                is_genesis |-> TRUE, genesis_code |-> NULL])

\* INSERT INTO persons (..., is_genesis, genesis_code) VALUES (..., TRUE, $6)
InsertPerson(ps, name, type, code) ==
    Append(ps, [name |-> name, type |-> type,
                is_genesis |-> TRUE, genesis_code |-> code])

\* ------------------------------------------------------- handler records
Idle == [op |-> "none"]

InFlight(r) == pc[r] # "idle"

\* A request can arrive at handler r (idle handlers are alike: the first takes it).
CanBegin(r) ==
    /\ pc[r] = "idle"
    /\ r = CHOOSE q \in Procs : pc[q] = "idle"
    /\ calls < MaxCalls

\* solo: the request has run with no other request in flight.
Solo(r) == \A o \in Procs \ {r} : ~InFlight(o)

\* What the client of handler r receives for the request call.
Response(r, call, ret) == [proc |-> r, call |-> call, ret |-> ret]

\* Handler r runs one statement: it goes to next with locals rec and hands
\* resp to its client; begun tells that this is the first statement of a request.
Step(r, next, rec, resp, begun) ==
    /\ pc' = [pc EXCEPT ![r] = next]
    /\ loc' = [q \in Procs |->
                 IF q = r THEN (IF next = "idle" THEN Idle ELSE rec)
                 ELSE IF begun /\ InFlight(q) THEN [loc[q] EXCEPT !.solo = FALSE]
                 ELSE loc[q]]
    /\ response' = resp
    /\ calls' = IF begun THEN calls + 1 ELSE calls

\* The handler goes on to its next statement.
Goto(r, next, rec) == Step(r, next, rec, NULL, FALSE)

\* The handler returns ret to its client.
Return(r, ret) == Step(r, "idle", Idle, Response(r, loc[r], ret), FALSE)

\* ------------------------------------------------------------ create_person
\* The request arrives and the handler looks the name up.  retired_before
\* keeps the genesis codes the merge log held when it arrived.
CP_Lookup(r) ==
    /\ CanBegin(r)
    /\ \E data \in PersonInputs :
         LET found == FindByName(persons, data.name)
             rec == [op |-> "create", name |-> data.name, type |-> data.type,
                     solo |-> Solo(r),
                     retired_before |-> {merge_log[i].genesis_code :
                                           i \in Ids(merge_log)}]
         IN IF found # {}
            THEN \E id \in found :   \* LIMIT 1 without ORDER BY
                   Step(r, "idle", rec,
                        Response(r, rec, [id |-> id, created |-> FALSE]), TRUE)
            ELSE Step(r, "cp_count", rec, NULL, TRUE)
    /\ UNCHANGED store

\* genesis_count = SELECT COUNT(*) ...; genesis_code = f"G{genesis_count + 1}"
CP_Count(r) ==
    /\ pc[r] = "cp_count"
    /\ Goto(r, "cp_insert",
            With(loc[r], "genesis_code", GenesisCode(GenesisCount(persons) + 1)))
    /\ UNCHANGED store

CP_Insert(r) ==
    /\ pc[r] = "cp_insert"
    /\ persons' = InsertPerson(persons, loc[r].name, loc[r].type, loc[r].genesis_code)
    /\ Goto(r, "cp_enqueue", With(loc[r], "person_id", Len(persons')))
    /\ UNCHANGED <<relationships, sources, merge_log, agent_queue, agent_log>>

CP_Enqueue(r) ==
    /\ pc[r] = "cp_enqueue"
    /\ agent_queue' = Append(agent_queue, loc[r].person_id)
    /\ Goto(r, "cp_log", loc[r])
    /\ UNCHANGED <<persons, relationships, sources, merge_log, agent_log>>

CP_Log(r) ==
    /\ pc[r] = "cp_log"
    /\ agent_log' = Append(agent_log,
           [person_id |-> loc[r].person_id, person_name |-> loc[r].name,
            action |-> "created", genesis_code |-> loc[r].genesis_code])
    /\ Return(r, [id |-> loc[r].person_id, created |-> TRUE,
                  genesis_code |-> loc[r].genesis_code])
    /\ UNCHANGED <<persons, relationships, sources, merge_log, agent_queue>>

\* ---------------------------------------------------------- store: tables
\* SELECT id FROM relationships
\* WHERE child_id=$1 AND parent_type=$2 AND is_primary=TRUE
PrimaryOf(rels, child, ptype) ==
    {i \in Ids(rels) : /\ rels[i].child_id = child
                       /\ rels[i].parent_type = ptype
                       /\ rels[i].is_primary}

\* The row the unique tuple (child_id, parent_id, parent_type) conflicts with.
Conflict(rels, child, parent, ptype) ==
    {i \in Ids(rels) : /\ rels[i].child_id = child
                       /\ rels[i].parent_id = parent
                       /\ rels[i].parent_type = ptype}

\* A referential check of the child only.
ReferencesChildOnly(ps, child, parent) == child \in Ids(ps)

\* The store's referential check of a new relationship row: both ends are
\* persons.
ReferencesExist(ps, child, parent) == child \in Ids(ps) /\ parent \in Ids(ps)

\* ON CONFLICT ... DO UPDATE SET confidence, is_primary, is_branch = EXCLUDED...
UpsertAllColumns(rels, child, parent, ptype, conf, is_primary, is_branch) ==
    LET hit == Conflict(rels, child, parent, ptype) IN
    IF hit # {}
    THEN [i \in Ids(rels) |->
            IF i \in hit
            THEN [rels[i] EXCEPT !.confidence = conf, !.is_primary = is_primary,
                                 !.is_branch = is_branch]
            ELSE rels[i]]
    ELSE Append(rels, [child_id |-> child, parent_id |-> parent,
                       parent_type |-> ptype, confidence |-> conf,
                       is_primary |-> is_primary, is_branch |-> is_branch])

\* INSERT INTO relationships (...) VALUES ($1, $2, $3, $4, $5, $6)
\* ON CONFLICT (child_id, parent_id, parent_type) DO UPDATE
\*   SET confidence = EXCLUDED.confidence
Upsert(rels, child, parent, ptype, conf, is_primary, is_branch) ==
    LET hit == Conflict(rels, child, parent, ptype) IN
    IF hit # {}
    THEN [i \in Ids(rels) |->
            IF i \in hit THEN [rels[i] EXCEPT !.confidence = conf] ELSE rels[i]]
    ELSE Append(rels, [child_id |-> child, parent_id |-> parent,
                       parent_type |-> ptype, confidence |-> conf,
                       is_primary |-> is_primary, is_branch |-> is_branch])

\* RETURNING id
UpsertedId(rels, child, parent, ptype) ==
    LET hit == Conflict(rels, child, parent, ptype) IN
    IF hit # {} THEN CHOOSE i \in hit : TRUE ELSE Len(rels) + 1

\* SELECT parent_id FROM relationships WHERE child_id=$1 AND confidence > 95
HighConfAbove(rels, child) ==
    {i \in Ids(rels) : /\ rels[i].child_id = child
                       /\ rels[i].confidence > MergeThreshold}

\* SELECT parent_id FROM relationships WHERE child_id=$1 AND confidence >= 95
HighConf(rels, child) ==
    {i \in Ids(rels) : /\ rels[i].child_id = child
                       /\ rels[i].confidence >= MergeThreshold}

\* UPDATE persons SET is_genesis=FALSE WHERE id=$1 (the code is left in place)
ClearGenesisKeepsCode(ps, id) ==
    [i \in Ids(ps) |->
        IF i = id THEN [ps[i] EXCEPT !.is_genesis = FALSE] ELSE ps[i]]

\* UPDATE persons SET is_genesis=FALSE, genesis_code=NULL (no WHERE clause)
ClearEveryGenesis(ps, id) ==
    [i \in Ids(ps) |-> [ps[i] EXCEPT !.is_genesis = FALSE, !.genesis_code = NULL]]

\* UPDATE persons SET is_genesis=FALSE, genesis_code=NULL WHERE id=$1
ClearGenesis(ps, id) ==
    [i \in Ids(ps) |->
        IF i = id THEN [ps[i] EXCEPT !.is_genesis = FALSE, !.genesis_code = NULL]
        ELSE ps[i]]

\* INSERT INTO merge_log (...) VALUES ($1, $2, $3, 95)
\* with person_id, person["genesis_code"], high_conf["parent_id"]
MergeEntry(person_id, person, parent_id) ==
    [genesis_person_id |-> person_id,
     genesis_code |-> person.genesis_code,
     merged_into_person_id |-> parent_id,
     confidence_at_merge |-> ConfidenceAtMerge]

\* --------------------------------------------------------- add_relationship
\* Ids a request can name: every person, and one id that is no person yet.
RequestIds == 1 .. (Len(persons) + 1)

\* The requests of the model are about the parents of the first person (an
\* id that is no person while the store is empty).
ChildIds == {1}

\* The request arrives and the handler looks for a primary.  was_genesis,
\* code_before, merges_before and primaries_before keep what the store held
\* when it arrived.
AR_Check(r) ==
    /\ CanBegin(r)
    /\ \E child \in ChildIds, parent \in RequestIds, data \in RelInputs :
         LET is_primary == PrimaryOf(relationships, child, data.parent_type) = {} IN
         Step(r, "ar_upsert",
              [op |-> "rel", child_id |-> child, parent_id |-> parent,
               parent_type |-> data.parent_type, confidence |-> data.confidence,
               source_url |-> data.source_url,
               is_primary |-> is_primary, is_branch |-> ~is_primary,
               solo |-> Solo(r),
               was_genesis |-> child \in Ids(persons) /\ persons[child].is_genesis,
               code_before |-> IF child \in Ids(persons)
                               THEN persons[child].genesis_code ELSE NULL,
               merges_before |-> Len(merge_log),
               primaries_before |->
                   PrimaryOf(relationships, child, data.parent_type)],
              NULL, TRUE)
    /\ UNCHANGED store

\* What follows the statement just run, from the upsert on.
AR_After(r, at, rec) ==
    IF at = "ar_upsert" /\ rec.source_url
    THEN Goto(r, "ar_source", rec)
    ELSE IF rec.confidence >= MergeThreshold
    THEN Goto(r, "cgm_person", rec)
    ELSE Return(r, [relationship_id |-> rec.rel_id, is_primary |-> rec.is_primary])

\* The upsert; replaced tells that it met the row of its tuple.
AR_Upsert(r) ==
    /\ pc[r] = "ar_upsert"
    /\ LET d == loc[r] IN
       IF /\ Conflict(relationships, d.child_id, d.parent_id, d.parent_type) = {}
          /\ ~ReferencesExist(persons, d.child_id, d.parent_id)
       THEN /\ Return(r, [error |-> "ReferenceError"])
            /\ UNCHANGED store
       ELSE /\ relationships' = Upsert(relationships, d.child_id, d.parent_id,
                                       d.parent_type, d.confidence,
                                       d.is_primary, d.is_branch)
            /\ AR_After(r, "ar_upsert",
                        With(With(d, "rel_id",
                                  UpsertedId(relationships, d.child_id, d.parent_id,
                                             d.parent_type)),
                             "replaced",
                             Conflict(relationships, d.child_id, d.parent_id,
                                      d.parent_type) # {}))
            /\ UNCHANGED <<persons, sources, merge_log, agent_queue, agent_log>>

AR_Source(r) ==
    /\ pc[r] = "ar_source"
    /\ sources' = Append(sources, loc[r].rel_id)
    /\ AR_After(r, "ar_source", loc[r])
    /\ UNCHANGED <<persons, relationships, merge_log, agent_queue, agent_log>>

\* ------------------------------------------------------ check_genesis_merge
AR_Result(r) == [relationship_id |-> loc[r].rel_id, is_primary |-> loc[r].is_primary]

\* person = SELECT * FROM persons WHERE id=$1
CGM_Person(r) ==
    /\ pc[r] = "cgm_person"
    /\ LET id == loc[r].child_id IN
       IF id \in Ids(persons) /\ persons[id].is_genesis
       THEN Goto(r, "cgm_highconf", With(loc[r], "person", persons[id]))
       ELSE Return(r, AR_Result(r))
    /\ UNCHANGED store

\* high_conf = SELECT parent_id ... LIMIT 1
CGM_HighConf(r) ==
    /\ pc[r] = "cgm_highconf"
    /\ LET rows == HighConf(relationships, loc[r].child_id) IN
       IF rows = {}
       THEN Return(r, AR_Result(r))
       ELSE \E i \in rows :   \* LIMIT 1 without ORDER BY
              Goto(r, "cgm_update",
                   With(loc[r], "high_conf", relationships[i].parent_id))
    /\ UNCHANGED store

CGM_Update(r) ==
    /\ pc[r] = "cgm_update"
    /\ persons' = ClearGenesis(persons, loc[r].child_id)
    /\ Goto(r, "cgm_log", loc[r])
    /\ UNCHANGED <<relationships, sources, merge_log, agent_queue, agent_log>>

CGM_Log(r) ==
    /\ pc[r] = "cgm_log"
    /\ merge_log' = Append(merge_log,
           MergeEntry(loc[r].child_id, loc[r].person, loc[r].high_conf))
    /\ Return(r, AR_Result(r))
    /\ UNCHANGED <<persons, relationships, sources, agent_queue, agent_log>>

\* ---------------------------------------------------------------- build_tree
\* if person_id in visited or depth == 0: return None  (without the cycle guard)
SkipOnDepthOnly(visited, person_id, depth) == depth = 0

\* if person_id in visited or depth == 0: return None
Skip(visited, person_id, depth) == person_id \in visited \/ depth = 0

\* The row of relationship i as the queries return it.
RelRow(rels, i) ==
    [rel_id |-> i, child_id |-> rels[i].child_id, parent_id |-> rels[i].parent_id,
     parent_type |-> rels[i].parent_type, confidence |-> rels[i].confidence,
     is_primary |-> rels[i].is_primary, is_branch |-> rels[i].is_branch]

\* ORDER BY r.is_primary DESC, r.confidence DESC
Before(a, b) ==
    \/ a.is_primary /\ ~b.is_primary
    \/ a.is_primary = b.is_primary /\ a.confidence >= b.confidence

\* SELECT r.*, ..., array_agg(s.url) ... as sources
\* FROM relationships r JOIN persons p ON p.id = r.parent_id
\* LEFT JOIN sources s ON s.relationship_id = r.id
\* WHERE r.child_id = $1 ORDER BY r.is_primary DESC, r.confidence DESC:
\* every order of the rows the ORDER BY allows (sources: how many urls).
ParentRows(rels, ps, srcs, person_id) ==
    LET hit == {i \in Ids(rels) : /\ rels[i].child_id = person_id
                                  /\ rels[i].parent_id \in Ids(ps)}
        n == Cardinality(hit)
    IN {[k \in 1 .. n |-> With(RelRow(rels, o[k]), "sources",
                                 Cardinality({x \in Ids(srcs) : srcs[x] = o[k]}))] :
          o \in {f \in [1 .. n -> hit] :
                   /\ \A j, k \in 1 .. n : j # k => f[j] # f[k]
                   /\ \A j, k \in 1 .. n :
                        j < k => Before(rels[f[j]], rels[f[k]])}}

\* SELECT r.*, ... WHERE r.parent_id = $1 AND r.is_primary = TRUE (no LIMIT)
ChildRowsUnlimited(rels, ps, person_id) ==
    {{RelRow(rels, i) : i \in {j \in Ids(rels) : /\ rels[j].parent_id = person_id
                                                 /\ rels[j].is_primary
                                                 /\ rels[j].child_id \in Ids(ps)}}}

\* SELECT r.*, ... FROM relationships r JOIN persons p ON p.id = r.child_id
\* WHERE r.parent_id = $1 AND r.is_primary = TRUE LIMIT 20:
\* every set of rows the LIMIT allows.
ChildRows(rels, ps, person_id) ==
    LET hit == {i \in Ids(rels) : /\ rels[i].parent_id = person_id
                                  /\ rels[i].is_primary
                                  /\ rels[i].child_id \in Ids(ps)}
    IN IF Cardinality(hit) <= ChildLimit
       THEN {{RelRow(rels, i) : i \in hit}}
       ELSE {{RelRow(rels, i) : i \in t} :
               t \in {u \in SUBSET hit : Cardinality(u) = ChildLimit}}

SetTop(stack, frame) == [stack EXCEPT ![Len(stack)] = frame]

Top(r) == loc[r].stack[Len(loc[r].stack)]

\* A call of build_tree returns result: to the caller's loop, or to the client.
BT_Deliver(r, rec, result, begun) ==
    IF rec.stack = <<>>
    THEN Step(r, "idle", Idle, Response(r, rec, result), begun)
    ELSE LET f == rec.stack[Len(rec.stack)]
             g == [f EXCEPT !.next = f.next + 1,
                            !.built = Append(f.built,
                                With(f.parents[f.next], "person", result))]
         IN Step(r, "bt_loop", [rec EXCEPT !.stack = SetTop(rec.stack, g)],
                 NULL, begun)

\* The guard, visited.add and person = SELECT * FROM persons WHERE id=$1 of the
\* call rec.call; expanded lists the persons that passed the guard.
BT_Visit(r, rec, begun) ==
    LET c == rec.call IN
    IF Skip(rec.visited, c.person_id, c.depth)
    THEN BT_Deliver(r, rec, NULL, begun)
    ELSE LET seen == [rec EXCEPT
                        !.visited = rec.visited \cup {c.person_id},
                        !.expanded = Append(rec.expanded, c.person_id)]
         IN IF c.person_id \notin Ids(persons)
            THEN BT_Deliver(r, seen, NULL, begun)
            ELSE Step(r, "bt_parents",
                      [seen EXCEPT !.stack = Append(seen.stack,
                         [person_id |-> c.person_id, depth |-> c.depth,
                          person |-> persons[c.person_id],
                          parents |-> <<>>, children |-> {},
                          next |-> 1, built |-> <<>>])],
                      NULL, begun)

\* get_tree: a request of inputs arrives and build_tree is called on its person.
BT_Call(r, inputs) ==
    /\ CanBegin(r)
    /\ \E data \in inputs :
         BT_Visit(r, [op |-> "tree", person_id |-> data.person_id,
                      depth |-> data.depth, solo |-> Solo(r),
                      call |-> [person_id |-> data.person_id, depth |-> data.depth],
                      stack |-> <<>>, visited |-> {}, expanded |-> <<>>],
                  TRUE)
    /\ UNCHANGED store

BT_Get(r) == BT_Call(r, TreeInputs)

\* build_tree called on a parent.
BT_Enter(r) ==
    /\ pc[r] = "bt_enter"
    /\ BT_Visit(r, loc[r], FALSE)
    /\ UNCHANGED store

BT_Parents(r) ==
    /\ pc[r] = "bt_parents"
    /\ \E rows \in ParentRows(relationships, persons, sources, Top(r).person_id) :
         Goto(r, "bt_children",
              [loc[r] EXCEPT !.stack =
                 SetTop(loc[r].stack, [Top(r) EXCEPT !.parents = rows])])
    /\ UNCHANGED store

BT_Children(r) ==
    /\ pc[r] = "bt_children"
    /\ \E rows \in ChildRows(relationships, persons, Top(r).person_id) :
         Goto(r, "bt_loop",
              [loc[r] EXCEPT !.stack =
                 SetTop(loc[r].stack, [Top(r) EXCEPT !.children = rows])])
    /\ UNCHANGED store

\* for parent_rel in parents: ... build_tree(conn, parent_id, depth - 1, visited);
\* after the loop, return result.
BT_Loop(r) ==
    /\ pc[r] = "bt_loop"
    /\ LET f == Top(r) IN
       IF f.next <= Len(f.parents)
       THEN Goto(r, "bt_enter",
                 [loc[r] EXCEPT !.call = [person_id |-> f.parents[f.next].parent_id,
                                          depth |-> f.depth - 1]])
       ELSE BT_Deliver(r,
                [loc[r] EXCEPT !.stack = SubSeq(loc[r].stack, 1, Len(loc[r].stack) - 1)],
                [person_id |-> f.person_id, person |-> f.person,
                 parents |-> f.built, children |-> f.children],
                FALSE)
    /\ UNCHANGED store

\* ---------------------------------------------------------------- spec
\* The store as the service finds it: empty, or holding the two persons that
\* create_person("al") followed by create_person("bo") leave in it.
SeedPersons ==
    <<[name |-> "al", type |-> "human", is_genesis |-> TRUE,
       genesis_code |-> GenesisCode(1)],
      [name |-> "bo", type |-> "human", is_genesis |-> TRUE,
       genesis_code |-> GenesisCode(2)]>>

SeedLog ==
    [i \in 1 .. 2 |->
       [person_id |-> i, person_name |-> SeedPersons[i].name,
        action |-> "created", genesis_code |-> SeedPersons[i].genesis_code]]

Init ==
    /\ \/ persons = <<>> /\ agent_queue = <<>> /\ agent_log = <<>>
       \/ persons = SeedPersons /\ agent_queue = <<1, 2>> /\ agent_log = SeedLog
    /\ relationships = <<>>
    /\ sources = <<>>
    /\ merge_log = <<>>
    /\ pc = [r \in Procs |-> "idle"]
    /\ loc = [r \in Procs |-> Idle]
    /\ response = NULL
    /\ calls = 0

Next ==
    \E r \in Procs :
        \/ CP_Lookup(r)
        \/ CP_Count(r)
        \/ CP_Insert(r)
        \/ CP_Enqueue(r)
        \/ CP_Log(r)
        \/ AR_Check(r)
        \/ AR_Upsert(r)
        \/ AR_Source(r)
        \/ CGM_Person(r)
        \/ CGM_HighConf(r)
        \/ CGM_Update(r)
        \/ CGM_Log(r)
        \/ BT_Get(r)
        \/ BT_Enter(r)
        \/ BT_Parents(r)
        \/ BT_Children(r)
        \/ BT_Loop(r)

Spec == Init /\ [][Next]_vars

\* ------------------------------------------------- the tree assembler alone
\* The persons create_person leaves when called for "al", "bo" and "cy" in turn.
TreePersons ==
    <<[name |-> "al", type |-> "human", is_genesis |-> TRUE,
       genesis_code |-> GenesisCode(1)],
      [name |-> "bo", type |-> "human", is_genesis |-> TRUE,
       genesis_code |-> GenesisCode(2)],
      [name |-> "cy", type |-> "human", is_genesis |-> TRUE,
       genesis_code |-> GenesisCode(3)]>>

\* The submissions among n persons.
TreeEdges(n) ==
    {[child_id |-> c, parent_id |-> q, parent_type |-> d.parent_type,
      confidence |-> d.confidence] :
        c \in 1 .. n, q \in 1 .. n, d \in TreeRelInputs}

\* The table that add_relationship leaves after serving the submissions subs,
\* each of a new tuple, one after the other: the first of a (child,
\* parent_type) pair is its primary.
RECURSIVE Submitted(_)
Submitted(subs) ==
    IF subs = <<>> THEN <<>>
    ELSE LET rels == Submitted(SubSeq(subs, 1, Len(subs) - 1))
             e == subs[Len(subs)]
             first == PrimaryOf(rels, e.child_id, e.parent_type) = {}
         IN Upsert(rels, e.child_id, e.parent_id, e.parent_type, e.confidence,
                   first, ~first)

NewTuples(subs) ==
    \A j, k \in 1 .. Len(subs) :
        /\ subs[j].child_id = subs[k].child_id
        /\ subs[j].parent_id = subs[k].parent_id
        /\ subs[j].parent_type = subs[k].parent_type
        => j = k

\* A store built by sequential requests, with one request still to come.
TreeInit ==
    /\ \E n \in 0 .. Len(TreePersons) :
         /\ persons = SubSeq(TreePersons, 1, n)
         /\ agent_queue = [i \in 1 .. n |-> i]
         /\ agent_log = [i \in 1 .. n |->
                           [person_id |-> i, person_name |-> TreePersons[i].name,
                            action |-> "created",
                            genesis_code |-> TreePersons[i].genesis_code]]
         /\ \E k \in 0 .. MaxTreeEdges :
              \E subs \in [1 .. k -> TreeEdges(n)] :
                 /\ NewTuples(subs)
                 /\ relationships = Submitted(subs)
    /\ sources = <<>>
    /\ merge_log = <<>>
    /\ pc = [r \in Procs |-> "idle"]
    /\ loc = [r \in Procs |-> Idle]
    /\ response = NULL
    /\ calls = MaxCalls - 1

\* get_tree on the first person (no person when the store is empty).
BT_GetDeep(r) ==
    BT_Call(r, {[person_id |-> 1, depth |-> d] : d \in TreeDepths})

TreeNext ==
    \E r \in Procs :
        \/ BT_GetDeep(r)
        \/ BT_Enter(r)
        \/ BT_Parents(r)
        \/ BT_Children(r)
        \/ BT_Loop(r)

\* The event loop runs a handler that can take a step.
TreeSpec == TreeInit /\ [][TreeNext]_vars /\ WF_vars(TreeNext)

\* ----------------------------------------------------------------- get_stats
\* round((merges / max(1, merges + active_genesis)) * 100, 1), in tenths of a
\* percent (no quotient of the model lies half way between two tenths).
CoveragePct(merges, active_genesis) ==
    LET d == IF merges + active_genesis < 1 THEN 1 ELSE merges + active_genesis
    IN (2000 * merges + d) \div (2 * d)

\* The request arrives:
\* total = SELECT COUNT(*) FROM persons WHERE type != 'genesis'
GS_Total(r) ==
    /\ CanBegin(r)
    /\ Step(r, "gs_genesis_count",
            [op |-> "stats", solo |-> Solo(r),
             total |-> Cardinality({p \in Ids(persons) :
                                      persons[p].type # "genesis"})],
            NULL, TRUE)
    /\ UNCHANGED store

\* SELECT COUNT(*) FROM persons WHERE is_genesis=TRUE AND type='genesis'
GS_GenesisCount(r) ==
    /\ pc[r] = "gs_genesis_count"
    /\ Goto(r, "gs_active_genesis",
            With(loc[r], "genesis_count",
                 Cardinality({p \in Ids(persons) :
                                persons[p].is_genesis /\ persons[p].type = "genesis"})))
    /\ UNCHANGED store

\* SELECT COUNT(*) FROM persons WHERE is_genesis=TRUE AND type!='genesis'
GS_ActiveGenesis(r) ==
    /\ pc[r] = "gs_active_genesis"
    /\ Goto(r, "gs_merges",
            With(loc[r], "active_genesis",
                 Cardinality({p \in Ids(persons) :
                                persons[p].is_genesis /\ persons[p].type # "genesis"})))
    /\ UNCHANGED store

\* SELECT COUNT(*) FROM merge_log
GS_Merges(r) ==
    /\ pc[r] = "gs_merges"
    /\ Goto(r, "gs_relationships", With(loc[r], "merges", Len(merge_log)))
    /\ UNCHANGED store

\* SELECT COUNT(*) FROM relationships
GS_Relationships(r) ==
    /\ pc[r] = "gs_relationships"
    /\ Goto(r, "gs_queue_pending", With(loc[r], "relationships", Len(relationships)))
    /\ UNCHANGED store

\* SELECT COUNT(*) FROM agent_queue WHERE status='pending' (every row of the
\* queue is pending: the handlers insert rows and never change one), and the
\* return.
GS_QueuePending(r) ==
    /\ pc[r] = "gs_queue_pending"
    /\ Return(r, [total_persons |-> loc[r].total,
                  unresolved_genesis_blocks |-> loc[r].active_genesis,
                  total_genesis_blocks_ever |-> loc[r].genesis_count + loc[r].merges,
                  merges_completed |-> loc[r].merges,
                  total_relationships |-> loc[r].relationships,
                  queue_pending |-> Len(agent_queue),
                  coverage_pct |-> CoveragePct(loc[r].merges, loc[r].active_genesis)])
    /\ UNCHANGED store

\* The service with its stats endpoint.
StatsNext ==
    \/ Next
    \/ \E r \in Procs :
        \/ GS_Total(r)
        \/ GS_GenesisCount(r)
        \/ GS_ActiveGenesis(r)
        \/ GS_Merges(r)
        \/ GS_Relationships(r)
        \/ GS_QueuePending(r)

StatsSpec == Init /\ [][StatsNext]_vars

\* ------------------------------------- the tree assembler on a wide family
\* Most children of one person in the stores of wide families.
MaxFanOut == 22

\* Name of the i-th person of a wide family.
FanName(i) == "p" \o ToString(i)

\* The persons create_person leaves when called for n new names in turn.
FanPersons(n) ==
    [i \in 1 .. n |-> [name |-> FanName(i), type |-> "human",
                       is_genesis |-> TRUE, genesis_code |-> GenesisCode(i)]]

FanEdge(child, parent) ==
    [child_id |-> child, parent_id |-> parent, parent_type |-> "father",
     confidence |-> 60]

\* Submissions that give person 1 the father 2, the k primary children
\* 4 .. k + 3, and the child 3 by a branch (the primary father of 3 is 2).
FanSubs(k) ==
    <<FanEdge(3, 2), FanEdge(3, 1)>> \o [i \in 1 .. k |-> FanEdge(i + 3, 1)]
        \o <<FanEdge(1, 2)>>

\* A store built by sequential requests, with one request still to come.
FanInit ==
    /\ \E k \in (ChildLimit - 1) .. MaxFanOut :
         /\ persons = FanPersons(k + 3)
         /\ agent_queue = [i \in 1 .. (k + 3) |-> i]
         /\ agent_log = [i \in 1 .. (k + 3) |->
                           [person_id |-> i, person_name |-> FanName(i),
                            action |-> "created",
                            genesis_code |-> GenesisCode(i)]]
         /\ relationships = Submitted(FanSubs(k))
    /\ sources = <<>>
    /\ merge_log = <<>>
    /\ pc = [r \in Procs |-> "idle"]
    /\ loc = [r \in Procs |-> Idle]
    /\ response = NULL
    /\ calls = MaxCalls - 1

\* get_tree on the person with the children, and on its father.
BT_GetWide(r) ==
    BT_Call(r, {[person_id |-> p, depth |-> d] : p \in {1, 2}, d \in {1, 2}})

FanNext ==
    \E r \in Procs :
        \/ BT_GetWide(r)
        \/ BT_Enter(r)
        \/ BT_Parents(r)
        \/ BT_Children(r)
        \/ BT_Loop(r)

FanSpec == FanInit /\ [][FanNext]_vars

\* ------------------------------------ the tree assembler on shared ancestors
\* Relationships in the stores of four persons.
MaxAncestorEdges == 4

\* The persons create_person leaves when called for "al", "bo", "cy" and "di".
AncestorPersons ==
    Append(TreePersons, [name |-> "di", type |-> "human", is_genesis |-> TRUE,
                         genesis_code |-> GenesisCode(4)])

\* The submissions that name a person created later as the parent.
AncestorEdges ==
    {FanEdge(e[1], e[2]) :
        e \in {x \in Ids(AncestorPersons) \X Ids(AncestorPersons) : x[1] < x[2]}}

\* A store built by sequential requests, with one request still to come.
AncestorInit ==
    /\ persons = AncestorPersons
    /\ agent_queue = [i \in Ids(AncestorPersons) |-> i]
    /\ agent_log = [i \in Ids(AncestorPersons) |->
                      [person_id |-> i, person_name |-> AncestorPersons[i].name,
                       action |-> "created",
                       genesis_code |-> AncestorPersons[i].genesis_code]]
    /\ \E k \in 0 .. MaxAncestorEdges :
         \E subs \in [1 .. k -> AncestorEdges] :
            /\ NewTuples(subs)
            /\ relationships = Submitted(subs)
    /\ sources = <<>>
    /\ merge_log = <<>>
    /\ pc = [r \in Procs |-> "idle"]
    /\ loc = [r \in Procs |-> Idle]
    /\ response = NULL
    /\ calls = MaxCalls - 1

\* get_tree on the first person with a depth of 1, 2 or 3.
BT_GetAncestors(r) ==
    BT_Call(r, {[person_id |-> 1, depth |-> d] : d \in {1, 2, 3}})

AncestorNext ==
    \E r \in Procs :
        \/ BT_GetAncestors(r)
        \/ BT_Enter(r)
        \/ BT_Parents(r)
        \/ BT_Children(r)
        \/ BT_Loop(r)

AncestorSpec == AncestorInit /\ [][AncestorNext]_vars

\* ================================================================= claims
\* Handler r has just run the statement it was at.
Ran(r, at) == pc[r] = at /\ pc'[r] # at

\* The step just taken returned a request of kind op to its client.
Returned(op) == response # NULL /\ response.call.op = op

Failed(resp) == "error" \in DOMAIN resp.ret

\* C1: in every reachable state, also those reached by interleaving the
\* statements of concurrent add_relationship calls, every (child_id,
\* parent_type) pair has at most one relationship with is_primary = TRUE.
C1_AtMostOnePrimary ==
    \A i, j \in Ids(relationships) :
        /\ relationships[i].child_id = relationships[j].child_id
        /\ relationships[i].parent_type = relationships[j].parent_type
        /\ relationships[i].is_primary
        /\ relationships[j].is_primary
        => i = j

\* C2: merge is terminal: a person whose is_genesis is FALSE stays a person
\* whose is_genesis is FALSE through every step of create_person,
\* add_relationship, check_genesis_merge and build_tree.
C2_MergeIsTerminal ==
    [][\A p \in Ids(persons) :
          ~persons[p].is_genesis => p \in Ids(persons') /\ ~persons'[p].is_genesis]_vars

\* A request of at least 95 for a child merged before it arrived has returned,
\* and the child is still merged.
C2_Witness ==
    /\ Returned("rel")
    /\ ~Failed(response)
    /\ response.call.confidence >= MergeThreshold
    /\ response.call.child_id \in Ids(persons)
    /\ ~response.call.was_genesis
    /\ ~persons[response.call.child_id].is_genesis

\* C3: in every reachable state no two persons with is_genesis = TRUE hold the
\* same genesis_code.
C3_UniqueGenesisCodes ==
    \A i, j \in Ids(persons) :
        /\ persons[i].is_genesis
        /\ persons[j].is_genesis
        /\ persons[i].genesis_code = persons[j].genesis_code
        => i = j

\* C4: a genesis code is never reassigned: create_person never inserts a
\* person with a code that the merge log held as genesis_code when the
\* request arrived.
C4_CodeNeverReassigned ==
    [][\A r \in Procs :
          Ran(r, "cp_insert") =>
              persons'[Len(persons')].genesis_code \notin loc[r].retired_before]_vars

\* Two names are equal ignoring case.
EqualIgnoringCase(a, b) == Lower(a) = Lower(b)

Namesakes(ps, name) == {p \in Ids(ps) : EqualIgnoringCase(ps[p].name, name)}

\* A create_person request for name has just arrived at handler r.
CreateArrived(r, name) ==
    /\ calls' = calls + 1
    /\ \/ pc'[r] = "cp_count" /\ pc[r] = "idle" /\ loc'[r].name = name
       \/ /\ response' # NULL
          /\ response'.proc = r
          /\ response'.call.op = "create"
          /\ response'.call.name = name

\* C5: create_person is idempotent on the name: when a person whose name
\* equals the given one ignoring case exists, the call returns the id of such
\* a person with nothing created, and leaves every table as it was.
C5_CreateIsIdempotent ==
    [][\A r \in Procs, data \in PersonInputs :
          CreateArrived(r, data.name) /\ Namesakes(persons, data.name) # {} =>
              /\ pc'[r] = "idle"
              /\ response' # NULL
              /\ ~response'.ret.created
              /\ response'.ret.id \in Namesakes(persons, data.name)
              /\ store' = store]_vars

\* A create of a name in another casing has returned the existing person.
C5_Witness ==
    /\ Returned("create")
    /\ ~response.ret.created
    /\ persons[response.ret.id].name # response.call.name
    /\ Cardinality(Namesakes(persons, response.call.name)) = 1

\* Handler r returns from add_relationship, without an error, a request that
\* ran with no other request in flight.
ReturnsAlone(r) ==
    /\ pc[r] # "idle"
    /\ pc'[r] = "idle"
    /\ loc[r].op = "rel"
    /\ loc[r].solo
    /\ ~Failed(response')

C7_NoDoubleMerge ==
    /\ \A i, j \in Ids(merge_log) :
         merge_log[i].genesis_person_id = merge_log[j].genesis_person_id => i = j
    /\ \A r \in Procs :
         pc[r] \in {"cgm_highconf", "cgm_update", "cgm_log"} =>
             loc[r].person.is_genesis

\* The row of the tuple (child, parent, ptype).
Edge(rels, child, parent, ptype) ==
    rels[CHOOSE i \in Conflict(rels, child, parent, ptype) : TRUE]

\* C8: when a primary exists for (child, parent_type) as add_relationship is
\* called for that child and parent_type with a parent other than that of any
\* primary, the edge is stored with is_primary = FALSE and is_branch = TRUE
\* and the primaries are left as they were.
C8_SecondClaimIsBranch ==
    [][\A r \in Procs :
          /\ Ran(r, "ar_upsert")
          /\ relationships' # relationships
          /\ loc[r].primaries_before # {}
          /\ \A i \in loc[r].primaries_before :
               relationships[i].parent_id # loc[r].parent_id
          => /\ ~Edge(relationships', loc[r].child_id, loc[r].parent_id,
                      loc[r].parent_type).is_primary
             /\ Edge(relationships', loc[r].child_id, loc[r].parent_id,
                     loc[r].parent_type).is_branch
             /\ \A i \in loc[r].primaries_before :
                  relationships'[i] = relationships[i]]_vars

\* C9: at most one relationship exists per tuple (child_id, parent_id,
\* parent_type), and resubmitting a tuple leaves the number of relationships,
\* the edge's id and its flags as they were and sets its confidence to the
\* submitted value.
C9_UpsertOnTuple ==
    [][/\ \A i, j \in Ids(relationships') :
            /\ relationships'[i].child_id = relationships'[j].child_id
            /\ relationships'[i].parent_id = relationships'[j].parent_id
            /\ relationships'[i].parent_type = relationships'[j].parent_type
            => i = j
       /\ \A r \in Procs :
            Ran(r, "ar_upsert") =>
              \A i \in Ids(relationships) :
                 /\ relationships[i].child_id = loc[r].child_id
                 /\ relationships[i].parent_id = loc[r].parent_id
                 /\ relationships[i].parent_type = loc[r].parent_type
                 => /\ relationships' =
                         [relationships EXCEPT ![i].confidence = loc[r].confidence]
                    /\ pc'[r] # "idle" => loc'[r].rel_id = i
                    /\ pc'[r] = "idle" => response'.ret.relationship_id = i]_vars

\* A resubmission has changed the confidence of the row of its tuple.
C9_Witness ==
    \E r \in Procs :
        /\ pc[r] = "cgm_person"
        /\ loc[r].replaced
        /\ loc[r].rel_id \in {sources[k] : k \in Ids(sources)}
        /\ relationships[loc[r].rel_id].confidence = loc[r].confidence
        /\ Len(relationships) = 1

\* No person is listed twice among those a request of get_tree has expanded.
ExpandedOnce(rec) ==
    \A j, k \in 1 .. Len(rec.expanded) : rec.expanded[j] = rec.expanded[k] => j = k

\* The locals of the get_tree requests: in flight, and the one just returned.
TreeCalls ==
    {loc[r] : r \in {q \in Procs : pc[q] # "idle" /\ loc[q].op = "tree"}}
    \cup (IF Returned("tree") THEN {response.call} ELSE {})

\* Every request in flight returns.
Terminates == \A r \in Procs : (pc[r] # "idle") ~> (pc[r] = "idle")

\* C10 as stated: for any relationship graph, with cycles and diamonds, and
\* any depth, also a negative one, build_tree terminates, expands each person
\* at most once, and its visited set never holds more entries than there are
\* persons.
C10_AsStated ==
    /\ Terminates
    /\ [](\A t \in TreeCalls :
            ExpandedOnce(t) /\ Cardinality(t.visited) <= Len(persons))

\* C10 as amended: build_tree terminates, expands each person at most once,
\* and its visited set holds persons only, or only the requested id when that
\* is no person; so never more entries than there are persons, but for the one
\* entry of a request for an id that is no person.
C10_TreeTerminates ==
    /\ Terminates
    /\ [](\A t \in TreeCalls :
            /\ ExpandedOnce(t)
            /\ \/ t.visited \subseteq Ids(persons)
               \/ t.person_id \notin Ids(persons) /\ t.visited = {t.person_id})

\* A request of negative depth has returned from a graph in which the three
\* persons are each other's ancestors in a cycle: all were expanded, each
\* once, and the way back to the first person came out as no node.
C10_Witness ==
    /\ Returned("tree")
    /\ response.call.depth < 0
    /\ response.call.visited = Ids(TreePersons)
    /\ Len(response.call.expanded) = Len(TreePersons)
    /\ \E i, j, k \in Ids(relationships) :
         /\ relationships[i].child_id = 1 /\ relationships[i].parent_id = 2
         /\ relationships[j].child_id = 2 /\ relationships[j].parent_id = 3
         /\ relationships[k].child_id = 3 /\ relationships[k].parent_id = 1
    /\ response.ret.parents[1].person.parents[1].person.parents[1].person = NULL

\* The expanded nodes of a result of build_tree: the result, and the nodes
\* nested under its parent entries.
RECURSIVE Nodes(_)
Nodes(tree) ==
    IF tree = NULL THEN {}
    ELSE {tree} \cup UNION {Nodes(tree.parents[i].person) :
                              i \in DOMAIN tree.parents}

\* C11: for every node in the result of build_tree the children list has at
\* most 20 entries, holds only relationships with is_primary = TRUE (those of
\* the node as parent), and no child entry carries a nested person.
C11_ChildrenBounded ==
    Returned("tree") =>
        \A node \in Nodes(response.ret) :
            /\ Cardinality(node.children) <= ChildLimit
            /\ \A c \in node.children :
                 /\ c.is_primary
                 /\ c.parent_id = node.person_id
                 /\ relationships[c.rel_id].is_primary
                 /\ "person" \notin DOMAIN c

\* A tree has returned for a person with more than 20 primary children and a
\* child by a branch: the list holds 20 of them, and the nested node of the
\* father has its own list.
C11_Witness ==
    /\ Returned("tree")
    /\ response.ret # NULL
    /\ response.ret.person_id = 1
    /\ Cardinality({i \in Ids(relationships) :
                      relationships[i].parent_id = 1 /\ relationships[i].is_primary})
          > ChildLimit
    /\ \E i \in Ids(relationships) :
          relationships[i].parent_id = 1 /\ ~relationships[i].is_primary
    /\ Cardinality(response.ret.children) = ChildLimit
    /\ Len(response.ret.parents) = 1
    /\ response.ret.parents[1].person # NULL
    /\ Cardinality(response.ret.parents[1].person.children) = 2

\* C12: in every reachable state a person has an entry in the merge log if
\* and only if its is_genesis is FALSE: no state shows a merged person
\* without its audit entry.
C12_MergedIffLogged ==
    \A p \in Ids(persons) :
        (\E i \in Ids(merge_log) : merge_log[i].genesis_person_id = p)
            <=> ~persons[p].is_genesis

\* C13: in every reachable state every person has a genesis_code if and only
\* if its is_genesis is TRUE.
C13_CodeIffGenesis ==
    \A p \in Ids(persons) : persons[p].genesis_code # NULL <=> persons[p].is_genesis

\* A merged person without a code stands next to a root created after the
\* merge, which holds one.
C13_Witness ==
    /\ Returned("create")
    /\ response.ret.created
    /\ persons[response.ret.id].is_genesis
    /\ persons[response.ret.id].genesis_code # NULL
    /\ response.call.retired_before # {}
    /\ \E p \in Ids(persons) :
         ~persons[p].is_genesis /\ persons[p].genesis_code = NULL

\* C14: in every reachable state, also under concurrent create_person calls
\* with names equal ignoring case, no two person rows have names that are
\* equal ignoring case.
C14_UniqueNames ==
    \A p, q \in Ids(persons) :
        EqualIgnoringCase(persons[p].name, persons[q].name) => p = q

C16_TotalIsUnresolvedPlusMerged ==
    Returned("stats") =>
        response.ret.total_genesis_blocks_ever =
            response.ret.unresolved_genesis_blocks + response.ret.merges_completed

\* Handler r takes a step of an add_relationship call.
RelStep(r) == pc[r] # "idle" /\ loc[r].op = "rel" /\ pc'[r] # pc[r]

\* C17: add_relationship(child, parent, ...) never changes is_genesis or
\* genesis_code of a person other than child (in particular not of parent),
\* and with a confidence below 95 it changes no person and appends no entry
\* to the merge log.
C17_OnlyChildMerges ==
    [][\A r \in Procs :
          RelStep(r) =>
              /\ Ids(persons') = Ids(persons)
              /\ \A p \in Ids(persons) :
                   p # loc[r].child_id => persons'[p] = persons[p]
              /\ merge_log' # merge_log =>
                   /\ Len(merge_log') = Len(merge_log) + 1
                   /\ merge_log'[Len(merge_log')].genesis_person_id = loc[r].child_id
              /\ loc[r].confidence < MergeThreshold =>
                   persons' = persons /\ merge_log' = merge_log]_vars

\* A call of at least 95 has merged its child and left the parent, another
\* person, a genesis root; the child has an edge of lower confidence too.
C17_Witness ==
    /\ Returned("rel")
    /\ ~Failed(response)
    /\ response.call.confidence >= MergeThreshold
    /\ response.call.parent_id # response.call.child_id
    /\ ~persons[response.call.child_id].is_genesis
    /\ persons[response.call.parent_id].is_genesis
    /\ persons[response.call.parent_id].genesis_code # NULL
    /\ \E i \in Ids(relationships) :
         /\ relationships[i].confidence < MergeThreshold
         /\ relationships[i].child_id = response.call.child_id
    /\ Len(merge_log) = 1

\* C18: the is_primary flag returned by add_relationship equals the
\* is_primary flag of the stored relationship whose id is returned, for every
\* call, also a resubmission of a tuple that exists as the primary edge.
C18_ReturnedFlagIsStored ==
    Returned("rel") /\ ~Failed(response) =>
        response.ret.is_primary =
            relationships[response.ret.relationship_id].is_primary

ParentsOf(S) ==
    {relationships[i].parent_id :
        i \in {j \in Ids(relationships) : relationships[j].child_id \in S}}
    \cap Ids(persons)

\* The persons reachable from those of S by a path of at most n parent
\* relationships.
RECURSIVE Within(_, _)
Within(S, n) == IF n = 0 THEN S ELSE Within(S \cup ParentsOf(S), n - 1)

\* C20: for a depth of at least 1, every person reachable from the focal
\* person along parent relationships by a path of fewer than depth edges is
\* an expanded node somewhere in the result of build_tree, also when that
\* person is reachable by several paths of different lengths.
C20_AncestorsWithinDepth ==
    /\ Returned("tree")
    /\ response.call.depth >= 1
    /\ response.call.person_id \in Ids(persons)
    => Within({response.call.person_id}, response.call.depth - 1)
          \subseteq {node.person_id : node \in Nodes(response.ret)}
====
